---- MODULE Spec2Model ----
(***************************************************************************)
(* Model of the memgraph example program: the readiness wait (waitFor),    *)
(* the orchestration in main, the seeding routine insertData, the two      *)
(* count queries, and the test harness of main_test.go.                    *)
(*                                                                         *)
(* The graph database is a collaborator; it is modelled by the effect the  *)
(* statements sent to it have on a set of nodes and a set of directed      *)
(* edges, and by the possibility that any single call to it fails.         *)
(***************************************************************************)
EXTENDS Integers, Sequences, FiniteSets, TLC

\* main.go:59  `if attemps > 100`
MaxAttempts == 100

\* main_test.go:80  `if attempts > 10`
TestMaxAttempts == 10

\* Number of successive invocations of waitFor explored by SpecWait.
MaxCalls == 2

VARIABLES
    pc,         \* position of the top-level routine: main, TestMain, or a caller of waitFor
    wpc,        \* position inside waitFor
    attemps,    \* waitFor's local counter (spelled as in the source)
    err,        \* result of the most recent VerifyConnectivity: "none", "ok", "fail"
    wret,       \* what waitFor returned: "none", "nil", "timeout"
    errAttemps, \* the number formatted into the timeout error
    probes,     \* history: VerifyConnectivity calls made in this invocation
    failures,   \* history: failed VerifyConnectivity calls in this invocation
    sinceProbe, \* history: time.Sleep calls since the most recent probe
    calls,      \* history: number of invocations of waitFor
    db,         \* the graph: nodes, edges, indexes, serial number
    stmt,       \* insertData: index of the next statement to run
    executed,   \* insertData: the statements sent to the database and their outcome, in order
    iret,       \* what insertData returned: "none", "nil", "err"
    ops,        \* main: routines invoked so far, in order
    results,    \* main: the error value each returned routine gave, in order
    db0,        \* history: the graph as it was when the program started
    test,       \* test runner: number of the running test function
    tstep,      \* test runner: index of the next step of the running test
    last,       \* test runner / main: outcome of the most recent step
    asserts,    \* test runner: <<test, step>> of every failed assert.Equal / assert.Nil
    aborted,    \* test runner: tests ended by t.Fatalf
    starts      \* test runner: for each started test, whether the graph was empty

vars == <<pc, wpc, attemps, err, wret, errAttemps, probes, failures, sinceProbe,
          calls, db, stmt, executed, iret, ops, results, db0, test, tstep, last,
          asserts, aborted, starts>>

waitVars == <<wpc, attemps, err, wret, errAttemps, probes, failures, sinceProbe, calls>>
dataVars == <<db, stmt, executed, iret>>
mainVars == <<ops, results, db0>>
testVars == <<test, tstep, asserts, aborted, starts>>

(***************************************************************************)
(* waitFor                                                                 *)
(***************************************************************************)

WaitForEnterKeepCounter ==
    /\ attemps' = attemps
    /\ wpc' = "probe"
    /\ err' = "none"
    /\ wret' = "none"
    /\ errAttemps' = 0
    /\ probes' = 0
    /\ failures' = 0
    /\ sinceProbe' = 0
    /\ calls' = calls + 1

\* attemps := 0, on entry to waitFor
WaitForEnter ==
    /\ attemps' = 0
    /\ wpc' = "probe"
    /\ err' = "none"
    /\ wret' = "none"
    /\ errAttemps' = 0
    /\ probes' = 0
    /\ failures' = 0
    /\ sinceProbe' = 0
    /\ calls' = calls + 1

\* attemps++ ; err := driver.VerifyConnectivity(ctx)
WaitForProbe ==
    /\ wpc = "probe"
    /\ \E r \in {"ok", "fail"} :
          /\ err' = r
          /\ failures' = IF r = "fail" THEN failures + 1 ELSE failures
    /\ attemps' = attemps + 1
    /\ probes' = probes + 1
    /\ sinceProbe' = 0
    /\ wpc' = "branch"
    /\ UNCHANGED <<wret, errAttemps, calls>>
    /\ UNCHANGED <<pc, last>> /\ UNCHANGED dataVars /\ UNCHANGED mainVars /\ UNCHANGED testVars

BranchNoBreak(e) == "check"

BranchAlwaysBreak(e) == "returned"

\* if err != nil { slog.Error(...) } else { slog.Info(...); break }
\* The two log lines do not change control flow; `break` leads to `return nil`.
Branch(e) == IF e = "fail" THEN "check" ELSE "returned"

WaitForBranch ==
    /\ wpc = "branch"
    /\ wpc' = Branch(err)
    /\ wret' = IF Branch(err) = "returned" THEN "nil" ELSE wret
    /\ UNCHANGED <<attemps, err, errAttemps, probes, failures, sinceProbe, calls>>
    /\ UNCHANGED <<pc, last>> /\ UNCHANGED dataVars /\ UNCHANGED mainVars /\ UNCHANGED testVars

ExhaustedAtMax(a) == a >= MaxAttempts

ExhaustedLate(a) == a > MaxAttempts + 1

\* if attemps > 100
Exhausted(a) == a > MaxAttempts

TimeoutAttempsStale(a) == a - 1

\* fmt.Errorf("... it took %d attemps", attemps)
TimeoutAttemps(a) == a

WaitForCheck ==
    /\ wpc = "check"
    /\ IF Exhausted(attemps)
          THEN /\ wpc' = "returned"
               /\ wret' = "timeout"
               /\ errAttemps' = TimeoutAttemps(attemps)
          ELSE /\ wpc' = "sleep"
               /\ UNCHANGED <<wret, errAttemps>>
    /\ UNCHANGED <<attemps, err, probes, failures, sinceProbe, calls>>
    /\ UNCHANGED <<pc, last>> /\ UNCHANGED dataVars /\ UNCHANGED mainVars /\ UNCHANGED testVars

SleepSkipped(n) == n

\* time.Sleep(1 * time.Second): one more suspension since the last probe
Slept(n) == n + 1

\* the sleep at the end of the loop body, then the next iteration
WaitForSleep ==
    /\ wpc = "sleep"
    /\ sinceProbe' = Slept(sinceProbe)
    /\ wpc' = "probe"
    /\ UNCHANGED <<attemps, err, wret, errAttemps, probes, failures, calls>>
    /\ UNCHANGED <<pc, last>> /\ UNCHANGED dataVars /\ UNCHANGED mainVars /\ UNCHANGED testVars

\* A caller that invokes waitFor, and invokes it again after it returned.
WaitCall ==
    /\ pc = "caller"
    /\ wpc \in {"idle", "returned"}
    /\ calls < MaxCalls
    /\ WaitForEnter
    /\ UNCHANGED <<pc, last>> /\ UNCHANGED dataVars /\ UNCHANGED mainVars /\ UNCHANGED testVars

EmptyDb == [nodes |-> {}, edges |-> {}, indexes |-> {}, next |-> 1]

NoStep == [op |-> "none", val |-> 0, err |-> "nil"]

InitCommon ==
    /\ wpc = "idle"
    /\ attemps = 0
    /\ err = "none"
    /\ wret = "none"
    /\ errAttemps = 0
    /\ probes = 0
    /\ failures = 0
    /\ sinceProbe = 0
    /\ calls = 0
    /\ stmt = 0
    /\ executed = <<>>
    /\ iret = "none"
    /\ ops = <<>>
    /\ results = <<>>
    /\ test = 0
    /\ tstep = 0
    /\ last = NoStep
    /\ asserts = {}
    /\ aborted = {}
    /\ starts = <<>>

InitWait ==
    /\ InitCommon
    /\ pc = "caller"
    /\ db = EmptyDb
    /\ db0 = db

NextWait ==
    \/ WaitCall
    \/ WaitForProbe
    \/ WaitForBranch
    \/ WaitForCheck
    \/ WaitForSleep

SpecWait == InitWait /\ [][NextWait]_vars

(***************************************************************************)
(* The graph and the statements sent to it                                 *)
(***************************************************************************)

\* CREATE INDEX ON :label(prop);
Index(l, p) == [kind |-> "index", label |-> l, prop |-> p]

\* CREATE (n:label {id: i, ...});
Create(l, i) == [kind |-> "create", label |-> l, id |-> i]

\* MATCH (a:al {id: ai}),(b:bl {id: bi}) CREATE (a)-[r:t]->(b);
Relate(al, ai, bl, bi, t) ==
    [kind |-> "relate", alabel |-> al, aid |-> ai, blabel |-> bl, bid |-> bi, type |-> t]

\* MATCH (n:label) DETACH DELETE n;
DeleteLabel(l) == [kind |-> "deleteLabel", label |-> l]

\* MATCH ()-[r:t]->() DETACH DELETE r;
DeleteType(t) == [kind |-> "deleteType", type |-> t]

\* MATCH (n) DETACH DELETE n;
DeleteAll == [kind |-> "deleteAll"]

\* the nodes a pattern (n:l {id: i}) matches
Match(g, l, i) == {n \in g.nodes : n.label = l /\ n.id = i}

\* DETACH DELETE of a set of nodes: the nodes and every edge touching them
DetachDelete(g, gone) ==
    [g EXCEPT !.nodes = g.nodes \ gone,
              !.edges = {e \in g.edges : e.src \notin gone /\ e.dst \notin gone}]

\* The effect of one successfully executed statement on the graph.  Every
\* created node gets a fresh identity; a MATCH ... CREATE creates one edge
\* for every matched pair.
Exec(g, s) ==
    CASE s.kind = "index" ->
            [g EXCEPT !.indexes = g.indexes \cup {<<s.label, s.prop>>}]
      [] s.kind = "create" ->
            [g EXCEPT !.nodes = g.nodes \cup {[nid |-> g.next, label |-> s.label, id |-> s.id]},
                      !.next = g.next + 1]
      [] s.kind = "relate" ->
            [g EXCEPT !.edges = g.edges \cup
                         {[eid |-> g.next, src |-> a, dst |-> b, type |-> s.type] :
                              <<a, b>> \in Match(g, s.alabel, s.aid) \X Match(g, s.blabel, s.bid)},
                      !.next = g.next + 1]
      [] s.kind = "deleteLabel" ->
            DetachDelete(g, {n \in g.nodes : n.label = s.label})
      [] s.kind = "deleteType" ->
            [g EXCEPT !.edges = {e \in g.edges : e.type # s.type}]
      [] s.kind = "deleteAll" ->
            DetachDelete(g, g.nodes)

CountRowsOfEdgesAsNodes(g, ok) ==
    IF ok THEN [val |-> Cardinality(g.edges), err |-> "nil"]
          ELSE [val |-> 0, err |-> "err"]

\* countAllNodes: MATCH (n) RETURN count(n); one row per node.  When
\* ExecuteQuery fails the function returns 0 and the error.
countAllNodes(g, ok) ==
    IF ok THEN [val |-> Cardinality(g.nodes), err |-> "nil"]
          ELSE [val |-> 0, err |-> "err"]

\* countAllEdges: MATCH ()-[]->() RETURN count(*); one row per directed edge.
countAllEdges(g, ok) ==
    IF ok THEN [val |-> Cardinality(g.edges), err |-> "nil"]
          ELSE [val |-> 0, err |-> "err"]

(***************************************************************************)
(* insertData                                                              *)
(***************************************************************************)

indexes == <<
    Index("Developer", "id"),
    Index("Technology", "id"),
    Index("Developer", "name"),
    Index("Technology", "name") >>

developer_nodes == <<
    Create("Developer", 1),
    Create("Developer", 2),
    Create("Developer", 3) >>

technology_nodes == <<
    Create("Technology", 1),
    Create("Technology", 2),
    Create("Technology", 3),
    Create("Technology", 4),
    Create("Technology", 5) >>

relationships == <<
    Relate("Developer", 1, "Technology", 1, "LOVES"),
    Relate("Developer", 2, "Technology", 3, "LOVES"),
    Relate("Developer", 3, "Technology", 1, "LOVES"),
    Relate("Developer", 1, "Technology", 5, "LOVES"),
    Relate("Developer", 2, "Technology", 2, "LOVES"),
    Relate("Developer", 3, "Technology", 4, "LOVES") >>

\* the four loops of insertData, in the order they run
Statements == indexes \o developer_nodes \o technology_nodes \o relationships

AfterErrorContinue(i, ok) == i + 1

\* After statement i: the next statement, or 0 when the loop returned err
AfterStatement(i, ok) == IF ok THEN i + 1 ELSE 0

\* One iteration of one of the loops: session.Run / neo4j.ExecuteQuery of
\* the next statement; `if err != nil { return err }`.
InsertStep ==
    /\ pc = "insertData"
    /\ stmt \in 1..Len(Statements)
    /\ \E ok \in BOOLEAN :
          /\ executed' = Append(executed, [i |-> stmt, ok |-> ok])
          /\ db' = IF ok THEN Exec(db, Statements[stmt]) ELSE db
          /\ stmt' = AfterStatement(stmt, ok)
          /\ last' = [op |-> "statement", val |-> stmt, err |-> IF ok THEN "nil" ELSE "err"]
          /\ IF AfterStatement(stmt, ok) = 0
                THEN /\ iret' = "err"
                     /\ pc' = "insertReturned"
                ELSE UNCHANGED <<iret, pc>>
    /\ UNCHANGED waitVars /\ UNCHANGED mainVars /\ UNCHANGED testVars

\* slog.Info("****** All data inserted *******"); return nil
InsertDone ==
    /\ pc = "insertData"
    /\ stmt = Len(Statements) + 1
    /\ iret' = "nil"
    /\ pc' = "insertReturned"
    /\ UNCHANGED <<db, stmt, executed, last>>
    /\ UNCHANGED waitVars /\ UNCHANGED mainVars /\ UNCHANGED testVars

(***************************************************************************)
(* main                                                                    *)
(***************************************************************************)

ProceedAlways(r) == TRUE

\* `if err != nil { log.Fatalf(...) }` after a call: main goes on only when
\* the call returned nil; log.Fatalf ends the process at once.
Proceed(r) == r = "nil"

\* neo4j.NewDriverWithContext and its error check
MainNewDriver ==
    /\ pc = "start"
    /\ \E r \in {"nil", "err"} :
          pc' = IF Proceed(r) THEN "callWaitFor" ELSE "fatal"
    /\ UNCHANGED <<last>>
    /\ UNCHANGED waitVars /\ UNCHANGED dataVars /\ UNCHANGED mainVars /\ UNCHANGED testVars

\* err = waitFor(ctx, driver)
MainCallWaitFor ==
    /\ pc = "callWaitFor"
    /\ WaitForEnter
    /\ ops' = Append(ops, "waitFor")
    /\ pc' = "waitFor"
    /\ UNCHANGED <<results, db0, last>>
    /\ UNCHANGED dataVars /\ UNCHANGED testVars

MainWaitForReturn ==
    /\ pc = "waitFor"
    /\ wpc = "returned"
    /\ results' = Append(results, wret)
    /\ pc' = IF Proceed(wret) THEN "callInsertData" ELSE "fatal"
    /\ UNCHANGED <<ops, db0, last>>
    /\ UNCHANGED waitVars /\ UNCHANGED dataVars /\ UNCHANGED testVars

\* err = insertData(ctx, driver): the statement lists are built and the
\* session is opened
MainCallInsertData ==
    /\ pc = "callInsertData"
    /\ ops' = Append(ops, "insertData")
    /\ stmt' = 1
    /\ executed' = <<>>
    /\ iret' = "none"
    /\ pc' = "insertData"
    /\ UNCHANGED <<db, results, db0, last>>
    /\ UNCHANGED waitVars /\ UNCHANGED testVars

MainInsertReturn ==
    /\ pc = "insertReturned"
    /\ results' = Append(results, iret)
    /\ pc' = IF Proceed(iret) THEN "countAllNodes" ELSE "fatal"
    /\ UNCHANGED <<ops, db0, last>>
    /\ UNCHANGED waitVars /\ UNCHANGED dataVars /\ UNCHANGED testVars

\* nodes, err := countAllNodes(ctx, driver) and its error check
MainCountAllNodes ==
    /\ pc = "countAllNodes"
    /\ \E ok \in BOOLEAN :
          LET r == countAllNodes(db, ok) IN
             /\ ops' = Append(ops, "countAllNodes")
             /\ results' = Append(results, r.err)
             /\ last' = [op |-> "countAllNodes", val |-> r.val, err |-> r.err]
             /\ pc' = IF Proceed(r.err) THEN "countAllEdges" ELSE "fatal"
    /\ UNCHANGED db0
    /\ UNCHANGED waitVars /\ UNCHANGED dataVars /\ UNCHANGED testVars

\* edges, err := countAllEdges(ctx, driver) and its error check; main returns
MainCountAllEdges ==
    /\ pc = "countAllEdges"
    /\ \E ok \in BOOLEAN :
          LET r == countAllEdges(db, ok) IN
             /\ ops' = Append(ops, "countAllEdges")
             /\ results' = Append(results, r.err)
             /\ last' = [op |-> "countAllEdges", val |-> r.val, err |-> r.err]
             /\ pc' = IF Proceed(r.err) THEN "done" ELSE "fatal"
    /\ UNCHANGED db0
    /\ UNCHANGED waitVars /\ UNCHANGED dataVars /\ UNCHANGED testVars

\* A graph left behind by an earlier run against the same database.
LeftOver == Exec(EmptyDb, Create("Developer", 1))

\* The database main connects to is empty or holds data of an earlier run.
Init ==
    /\ InitCommon
    /\ pc = "start"
    /\ db \in {EmptyDb, LeftOver}
    /\ db0 = db

Next ==
    \/ MainNewDriver
    \/ MainCallWaitFor
    \/ WaitForProbe
    \/ WaitForBranch
    \/ WaitForCheck
    \/ WaitForSleep
    \/ MainWaitForReturn
    \/ MainCallInsertData
    \/ InsertStep
    \/ InsertDone
    \/ MainInsertReturn
    \/ MainCountAllNodes
    \/ MainCountAllEdges

Spec == Init /\ [][Next]_vars

(***************************************************************************)
(* The test harness: TestMain, Test_countAllNodes, Test_countAllEdges      *)
(***************************************************************************)

\* count, err := countAllNodes(ctx, driver); assert.Nil; assert.Equal(expect, count)
CountNodes(n) == [op |-> "countAllNodes", expect |-> n]

\* count, err := countAllEdges(ctx, driver); assert.Nil; assert.Equal(expect, count)
CountEdges(n) == [op |-> "countAllEdges", expect |-> n]

\* neo4j.ExecuteQuery of a statement; t.Fatalf when it fails
Run(s) == [op |-> "exec", s |-> s]

\* err = deleteEverything(ctx, driver)
CleanUp == [op |-> "deleteEverything"]

Test_countAllNodes == <<
    CountNodes(0),
    Run(Create("A", "a-1")),
    Run(Create("A", "a-2")),
    Run(Create("A", "a-3")),
    Run(Create("B", "b-1")),
    Run(Create("B", "b-2")),
    Run(Create("B", "b-3")),
    Run(Create("C", "c-1")),
    Run(Create("C", "c-2")),
    Run(Create("D", "d-1")),
    CountNodes(9),
    Run(DeleteLabel("C")),
    CountNodes(7),
    CleanUp >>

Test_countAllEdges == <<
    CountEdges(0),
    Run(Create("Account", "alice")),
    Run(Create("Account", "bob")),
    Run(Create("Account", "charlie")),
    Run(Relate("Account", "alice", "Account", "bob", "FRIEND")),
    Run(Relate("Account", "alice", "Account", "charlie", "COLLEAGUE")),
    Run(Relate("Account", "bob", "Account", "charlie", "FRIEND")),
    CountEdges(3),
    Run(DeleteType("COLLEAGUE")),
    CountEdges(2),
    CleanUp >>

\* the test functions in the order the test runner calls them
Tests == <<Test_countAllNodes, Test_countAllEdges>>

\* startContainer, container.Endpoint, neo4j.NewDriverWithContext, each with
\* log.Fatalf on error; attempts := 0
TestMainSetup ==
    /\ pc = "testmain"
    /\ \E ok \in BOOLEAN : pc' = IF ok THEN "tmProbe" ELSE "fatal"
    /\ attemps' = 0
    /\ UNCHANGED <<wpc, err, wret, errAttemps, probes, failures, sinceProbe, calls>>
    /\ UNCHANGED last /\ UNCHANGED dataVars /\ UNCHANGED mainVars /\ UNCHANGED testVars

\* attempts++ ; err = driver.VerifyConnectivity(ctx) ; if err == nil { break }
TestMainProbe ==
    /\ pc = "tmProbe"
    /\ attemps' = attemps + 1
    /\ probes' = probes + 1
    /\ \E r \in {"ok", "fail"} :
          /\ err' = r
          /\ failures' = IF r = "fail" THEN failures + 1 ELSE failures
          /\ pc' = IF r = "ok" THEN "run" ELSE "tmCheck"
          /\ test' = IF r = "ok" THEN 1 ELSE test
    /\ UNCHANGED <<wpc, wret, errAttemps, sinceProbe, calls>>
    /\ UNCHANGED <<tstep, asserts, aborted, starts>>
    /\ UNCHANGED last /\ UNCHANGED dataVars /\ UNCHANGED mainVars

\* if attempts > 10 { log.Fatalf } ; time.Sleep(1 * time.Second)
TestMainCheck ==
    /\ pc = "tmCheck"
    /\ pc' = IF attemps > TestMaxAttempts THEN "fatal" ELSE "tmProbe"
    /\ UNCHANGED waitVars
    /\ UNCHANGED last /\ UNCHANGED dataVars /\ UNCHANGED mainVars /\ UNCHANGED testVars

Step == Tests[test][tstep]

\* m.Run() calls the next test function
TestStart ==
    /\ pc = "run"
    /\ test \in 1..Len(Tests)
    /\ tstep = 0
    /\ tstep' = 1
    /\ starts' = Append(starts, db.nodes = {} /\ db.edges = {})
    /\ UNCHANGED <<pc, last, test, asserts, aborted>>
    /\ UNCHANGED waitVars /\ UNCHANGED dataVars /\ UNCHANGED mainVars

\* a count and its two assertions; a failed assertion marks the test failed
\* and the test goes on
TestCount ==
    /\ pc = "run"
    /\ test \in 1..Len(Tests)
    /\ tstep \in 1..Len(Tests[test])
    /\ Step.op \in {"countAllNodes", "countAllEdges"}
    /\ \E ok \in BOOLEAN :
          LET r == IF Step.op = "countAllNodes" THEN countAllNodes(db, ok)
                                                ELSE countAllEdges(db, ok)
          IN /\ last' = [op |-> Step.op, val |-> r.val, err |-> r.err]
             /\ asserts' = asserts
                   \cup (IF r.err # "nil" THEN {<<test, tstep, "Nil">>} ELSE {})
                   \cup (IF r.val # Step.expect THEN {<<test, tstep, "Equal">>} ELSE {})
    /\ tstep' = tstep + 1
    /\ UNCHANGED <<pc, test, aborted, starts>>
    /\ UNCHANGED waitVars /\ UNCHANGED dataVars /\ UNCHANGED mainVars

\* a statement of the test; t.Fatalf ends the test function without clean-up
TestExec ==
    /\ pc = "run"
    /\ test \in 1..Len(Tests)
    /\ tstep \in 1..Len(Tests[test])
    /\ Step.op = "exec"
    /\ \E ok \in BOOLEAN :
          /\ last' = [op |-> "exec", val |-> 0, err |-> IF ok THEN "nil" ELSE "err"]
          /\ IF ok
                THEN /\ db' = Exec(db, Step.s)
                     /\ tstep' = tstep + 1
                     /\ UNCHANGED <<test, aborted>>
                ELSE /\ db' = db
                     /\ aborted' = aborted \cup {test}
                     /\ test' = test + 1
                     /\ tstep' = 0
    /\ UNCHANGED <<pc, asserts, starts, stmt, executed, iret>>
    /\ UNCHANGED waitVars /\ UNCHANGED mainVars

\* deleteEverything: MATCH (n) DETACH DELETE n;
deleteEverything(g) == Exec(g, DeleteAll)

\* the clean-up at the end of a test; deleteEverything calls log.Fatalf when
\* its query fails, otherwise the test function returns
TestCleanUp ==
    /\ pc = "run"
    /\ test \in 1..Len(Tests)
    /\ tstep \in 1..Len(Tests[test])
    /\ Step.op = "deleteEverything"
    /\ \E ok \in BOOLEAN :
          /\ last' = [op |-> "deleteEverything", val |-> 0, err |-> IF ok THEN "nil" ELSE "err"]
          /\ IF ok
                THEN /\ db' = deleteEverything(db)
                     /\ test' = test + 1
                     /\ tstep' = 0
                     /\ pc' = pc
                ELSE /\ pc' = "fatal"
                     /\ UNCHANGED <<db, test, tstep>>
    /\ UNCHANGED <<asserts, aborted, starts, stmt, executed, iret>>
    /\ UNCHANGED waitVars /\ UNCHANGED mainVars

\* m.Run() returns after the last test; TestMain returns
TestMainExit ==
    /\ pc = "run"
    /\ test = Len(Tests) + 1
    /\ pc' = "done"
    /\ UNCHANGED last
    /\ UNCHANGED waitVars /\ UNCHANGED dataVars /\ UNCHANGED mainVars /\ UNCHANGED testVars

\* a freshly started container holds an empty graph
InitTest ==
    /\ InitCommon
    /\ pc = "testmain"
    /\ db = EmptyDb
    /\ db0 = db

NextTest ==
    \/ TestMainSetup
    \/ TestMainProbe
    \/ TestMainCheck
    \/ TestStart
    \/ TestCount
    \/ TestExec
    \/ TestCleanUp
    \/ TestMainExit

SpecTest == InitTest /\ [][NextTest]_vars

(***************************************************************************)
(* Properties of waitFor, checked under SpecWait                           *)
(***************************************************************************)

\* C1 (eventual success): when the probe has failed k < MaxAttempts times and
\* then succeeds, that success is probe number k+1, nothing is probed after
\* it, waitFor has not given up before it, and waitFor returns nil.
C1_EventualSuccess ==
    /\ (failures < MaxAttempts) => wret # "timeout"
    /\ (err = "ok" /\ failures < MaxAttempts) => probes = failures + 1
    /\ (err = "ok" /\ failures < MaxAttempts /\ wpc = "returned") => wret = "nil"

C1_Witness == wret = "nil" /\ failures = MaxAttempts - 1 /\ probes = MaxAttempts

\* C2 (exhaustion): with a probe that always fails waitFor returns the timeout
\* error after one fixed number of probes, MaxAttempts + 1 (the "N+1" rule):
\* it has not returned before that probe, and it probes no more after it.
C2_Exhaustion ==
    /\ wret = "timeout" => probes = MaxAttempts + 1
    /\ (failures = probes /\ probes < MaxAttempts + 1) => wpc # "returned"
    /\ (failures = probes /\ probes = MaxAttempts + 1) => wpc \in {"branch", "check", "returned"}
    /\ (failures = probes /\ wpc = "returned") => wret = "timeout"

C2_Witness == wret = "timeout" /\ probes = MaxAttempts + 1

\* C3 as stated: one invocation of waitFor never probes more than MaxAttempts times.
C3_AtMostMaxProbes == probes <= MaxAttempts

\* C3 as amended: one invocation of waitFor never probes more than
\* MaxAttempts + 1 times, whatever the probe results are.
C3_AtMostMaxPlusOneProbes == probes <= MaxAttempts + 1

C3_Witness == probes = MaxAttempts + 1 /\ wpc = "returned"

\* C4 (no premature success): waitFor returns nil only when the most recent
\* probe succeeded, and within an invocation no probe follows a successful one.
C4_NoPrematureSuccess ==
    /\ [](wret = "nil" => err = "ok")
    /\ [][(err = "ok" /\ calls' = calls) => probes' = probes]_vars

C4_Witness == wret = "nil" /\ err = "ok" /\ probes > 1

\* C5 (exhaustion is the only failure): waitFor returns an error only when
\* every probe it made failed and the counter exceeded MaxAttempts; every
\* return is nil or that error; and the count in the error is the number of
\* probes made.
C5_OnlyExhaustionFails ==
    /\ wret = "timeout" =>
          /\ failures = probes
          /\ attemps > MaxAttempts
          /\ errAttemps = probes
    /\ wpc = "returned" => wret \in {"nil", "timeout"}
    /\ (err = "fail" /\ attemps <= MaxAttempts) => wret = "none"

C5_Witness == wret = "timeout" /\ errAttemps = MaxAttempts + 1 /\ failures = MaxAttempts + 1

\* C8 (delay honored): the first probe of an invocation is preceded by no
\* suspension, every later probe by exactly one suspension since the previous
\* probe, and no suspension follows the last probe of an invocation.
C8_DelayHonored ==
    /\ [](wpc = "returned" => sinceProbe = 0)
    /\ [][probes' = probes + 1 =>
             (IF probes = 0 THEN sinceProbe = 0 ELSE sinceProbe = 1)]_vars

C8_Witness == probes = 3 /\ sinceProbe = 0 /\ wpc = "branch"

\* C9 (counter monotonicity): the counter starts each invocation at zero,
\* goes up by exactly one with every probe, never goes down within an
\* invocation, and always equals the number of probes made in the invocation.
C9_CounterMonotone ==
    /\ [](attemps = probes)
    /\ [][calls' # calls => attemps' = 0]_vars
    /\ [][calls' = calls => attemps' \in {attemps, attemps + 1}]_vars
    /\ [][(calls' = calls /\ probes' # probes) => attemps' = attemps + 1]_vars

C9_Witness == calls = 2 /\ attemps = 1 /\ probes = 1

(***************************************************************************)
(* Properties of main and insertData, checked under Spec                   *)
(***************************************************************************)

IsPrefix(p, q) == Len(p) <= Len(q) /\ \A i \in 1..Len(p) : p[i] = q[i]

MainOrder == <<"waitFor", "insertData", "countAllNodes", "countAllEdges">>

\* C6: main invokes waitFor once, before any data operation; insertData,
\* countAllNodes and countAllEdges are invoked in that order and only after
\* everything before them returned nil; the step that returns an error is the
\* last one invoked, and the process, once it is fatal, does nothing more.
C6_WaitBeforeData ==
    /\ [](calls <= 1 /\ (ops # <<>> => calls = 1))
    /\ [](IsPrefix(ops, MainOrder))
    /\ [](Len(results) \in {Len(ops) - 1, Len(ops)})
    /\ [](Len(ops) >= 2 => (wpc = "returned" /\ wret = "nil"))
    /\ [](\A i \in 1..Len(results) :
             results[i] # "nil" => (i = Len(ops) /\ pc = "fatal"))
    /\ [][pc # "fatal"]_vars

C6_Witness == pc = "done" /\ ops = MainOrder /\ results = <<"nil", "nil", "nil", "nil">>

RECURSIVE Applied(_, _)
\* the graph after the successful statements among those executed so far
Applied(g, ex) ==
    IF ex = <<>> THEN g
    ELSE LET e == ex[Len(ex)]
             before == Applied(g, SubSeq(ex, 1, Len(ex) - 1))
         IN IF e.ok THEN Exec(before, Statements[e.i]) ELSE before

\* C10: insertData sends its statements in the order indexes, developer
\* nodes, technology nodes, relationships; it stops at the first one that
\* fails and returns the error, keeping what the earlier ones did; every
\* relationship statement finds both its nodes; and on an empty graph a
\* successful insertData leaves 8 nodes and 6 edges.
C10_InsertOrder ==
    /\ \A j \in 1..Len(executed) : executed[j].i = j
    /\ \A j \in 1..(Len(executed) - 1) : executed[j].ok
    /\ \A j \in 1..Len(executed) :
          LET s == Statements[executed[j].i] IN
             /\ j \in 1..4 => s.kind = "index"
             /\ j \in 5..7 => (s.kind = "create" /\ s.label = "Developer")
             /\ j \in 8..12 => (s.kind = "create" /\ s.label = "Technology")
             /\ j \in 13..18 => s.kind = "relate"
    /\ iret = "err" <=> (executed # <<>> /\ ~executed[Len(executed)].ok)
    /\ iret = "nil" => (Len(executed) = Len(Statements) /\ executed[Len(executed)].ok)
    /\ db = Applied(db0, executed)
    /\ \A j \in 1..Len(executed) :
          LET s == Statements[executed[j].i] IN
             (s.kind = "relate" /\ executed[j].ok) =>
                 \E a \in Match(db, s.alabel, s.aid), b \in Match(db, s.blabel, s.bid) :
                     \E e \in db.edges : e.src = a /\ e.dst = b /\ e.type = s.type
    /\ (iret = "nil" /\ db0 = EmptyDb) =>
          (Cardinality(db.nodes) = 8 /\ Cardinality(db.edges) = 6)

C10_Witness ==
    /\ iret = "nil"
    /\ db0 = EmptyDb
    /\ Cardinality(db.nodes) = 8
    /\ Cardinality(db.edges) = 6

(***************************************************************************)
(* Properties of the count queries, checked under SpecTest                 *)
(***************************************************************************)

Counts == {"countAllNodes", "countAllEdges"}

InGraph(op) == IF op = "countAllNodes" THEN Cardinality(db.nodes) ELSE Cardinality(db.edges)

====
